---- MODULE Spec2Model ----
(***************************************************************************)
(* cpprun: compile a C++ source with an external compiler and run the      *)
(* produced binary.  The model follows src/cpprun.cpp: split_args,         *)
(* parse_cpprun_args, collect_build_args, run_cmd and the steps of         *)
(* inner_main, over a small filesystem and an event log of what the        *)
(* process does (echo lines, forks, directory creation and removal).       *)
(*                                                                         *)
(* Strings are atomic values here, so the three places where the code      *)
(* looks inside a string are modelled on structured values:                *)
(*   - CPPRUN_VERBOSE is a sequence of characters (atoi reads it),         *)
(*   - CPPRUN_CXXFLAGS is a sequence of lexemes, whitespace runs and       *)
(*     words alternating (operator>> reads it),                            *)
(*   - paths and the "-std=" prefix test are tables over the tokens used.  *)
(***************************************************************************)
EXTENDS Integers, Sequences, FiniteSets, TLC

VARIABLES
    entry,        \* which function the caller entered: inner_main or, as tests.cpp does, parse_cpprun_args
    argv,         \* the argument list given (without the program name)
    env,          \* the environment: each variable is <<>> (unset) or <<value>>
    pc,           \* position in inner_main
    cpprun_args,  \* tool-side arguments   (inner_main:241)
    run_args,     \* program-side arguments (inner_main:241)
    args,         \* the CpprunArgs value   (inner_main:243)
    output_path,  \* the resolved output path, "" before it is resolved (inner_main:254)
    dirs,         \* directories that exist
    files,        \* files that exist
    events,       \* what the process did, in order
    calls,        \* the calls of run_cmd, in order, each with the value it returned
    rc,           \* the local rc of inner_main, -1 before it is assigned (inner_main:273)
    ret           \* the value inner_main returned, -1 while it has not returned

vars == <<entry, argv, env, pc, cpprun_args, run_args, args, output_path, dirs, files, events, calls, rc, ret>>

-----------------------------------------------------------------------------
(* Bounds of the model *)

\* longest tool-side argument list explored exhaustively
MaxTool == 3
\* longest program-side argument list explored exhaustively
MaxProg == 2
\* longest CPPRUN_VERBOSE value explored exhaustively
MaxVerboseLen == 2

SeqsUpTo(S, n) == UNION {[1..k -> S] : k \in 0..n}

-----------------------------------------------------------------------------
(* Tokens *)

InfoToken == "--cpprun-compiler-info"
Sep == "--"

\* tokens the tool-side list is drawn from
ToolTokens == {InfoToken, "-c", "-o", "-std=c++17", "-std=c++20", "-v", "--version", "sub/out"}
\* tokens the program-side list is drawn from
ProgTokens == {Sep, "runarg"}

\* the two argument lists of TEST(CppRun, ParseCpprunArgs)
TestArgsWithSep == <<"-foo", "-std=c++17", "-o", "output", "--", "runarg">>
TestArgsNoSep == <<"-foo", "-std=c++17", "-o", "output">>

DEFAULT_CXXFLAGS == <<"-Wall", "-Wextra", "-pedantic", "-g">>
DEFAULT_CXX_STANDARD == "-std=c++23"

\* a.substr(0, 5) == "-std=", over the tokens of the model
HasStdPrefix(a) == a \in {"-std=c++11", "-std=c++17", "-std=c++20", "-std=c++23"}

-----------------------------------------------------------------------------
(* Vector helpers *)

extend(dst, src) == dst \o src

append(dst, value) == Append(dst, value)

contains(haystack, needle) == \E i \in 1..Len(haystack) : haystack[i] = needle

\* std::find: the index of the first element equal to x, Len(s) + 1 for end()
RECURSIVE FindFrom(_, _, _)
FindFrom(s, x, i) ==
    IF i > Len(s) THEN Len(s) + 1
    ELSE IF s[i] = x THEN i
    ELSE FindFrom(s, x, i + 1)

Find(s, x) == FindFrom(s, x, 1)

-----------------------------------------------------------------------------
(* split_args *)

\* split_args cutting at the last separator instead of the first
split_args_at_last(a, sep) ==
    LET hits == {i \in 1..Len(a) : a[i] = sep} IN
    IF hits = {} THEN <<a, <<>>>>
    ELSE LET it == CHOOSE i \in hits : \A j \in hits : j <= i
         IN <<SubSeq(a, 1, it - 1), SubSeq(a, it + 1, Len(a))>>

split_args(a, sep) ==
    LET it == Find(a, sep) IN
    IF it = Len(a) + 1
    THEN <<a, <<>>>>
    ELSE <<SubSeq(a, 1, it - 1), SubSeq(a, it + 1, Len(a))>>

-----------------------------------------------------------------------------
(* Environment values *)

WS == " "

\* operator>> on the value of CPPRUN_CXXFLAGS: the words, whitespace dropped
RECURSIVE SplitWords(_)
SplitWords(lex) ==
    IF lex = <<>> THEN <<>>
    ELSE IF Head(lex) = WS THEN SplitWords(Tail(lex))
    ELSE <<Head(lex)>> \o SplitWords(Tail(lex))

IsSpace(c) == c \in {" "}

IsDigit(c) == c \in {"0", "1", "2"}

DigitValue(c) == CASE c = "0" -> 0 [] c = "1" -> 1 [] c = "2" -> 2

RECURSIVE AtoiDigits(_, _, _)
AtoiDigits(s, i, acc) ==
    IF i > Len(s) \/ ~IsDigit(s[i]) THEN acc
    ELSE AtoiDigits(s, i + 1, acc * 10 + DigitValue(s[i]))

RECURSIVE SkipSpace(_, _)
SkipSpace(s, i) == IF i <= Len(s) /\ IsSpace(s[i]) THEN SkipSpace(s, i + 1) ELSE i

\* std::atoi: leading whitespace, an optional sign, then digits up to the first non-digit
atoi(s) ==
    LET i == SkipSpace(s, 1) IN
    IF i <= Len(s) /\ s[i] = "-" THEN 0 - AtoiDigits(s, i + 1, 0)
    ELSE IF i <= Len(s) /\ s[i] = "+" THEN AtoiDigits(s, i + 1, 0)
    ELSE AtoiDigits(s, i, 0)

-----------------------------------------------------------------------------
(* CpprunArgs and parse_cpprun_args *)

\* struct CpprunArgs with its default member initialisers; optionals are <<>> or <<v>>.
\* threw records that parse_cpprun_args left by the throw instead of returning.
CpprunArgsDefault ==
    [show_compiler_info |-> FALSE,
     build_only |-> FALSE,
     verbose |-> FALSE,
     cxx |-> "c++",
     cxx_standard |-> <<DEFAULT_CXX_STANDARD>>,
     output_path |-> <<>>,
     build_args |-> <<>>,
     threw |-> FALSE]

\* the four getenv blocks of parse_cpprun_args
ApplyEnv(a, e) ==
    LET a1 == [a EXCEPT !.build_args =
                  IF e.CXXFLAGS # <<>> THEN SplitWords(e.CXXFLAGS[1])
                  ELSE extend(a.build_args, DEFAULT_CXXFLAGS)]
        a2 == IF e.VERBOSE # <<>>
              THEN [a1 EXCEPT !.verbose = (atoi(e.VERBOSE[1]) # 0)]
              ELSE a1
        a3 == IF e.STANDARD # <<>>
              THEN [a2 EXCEPT !.cxx_standard =
                       IF e.STANDARD[1] = "" THEN <<>> ELSE <<e.STANDARD[1]>>]
              ELSE a2
        a4 == IF e.CXX # <<>> THEN [a3 EXCEPT !.cxx = e.CXX[1]] ELSE a3
    IN a4

\* the token loop of parse_cpprun_args, i is the 1-based index
RECURSIVE ParseLoop(_, _, _)
ParseLoop(a, toks, i) ==
    IF i > Len(toks) THEN a
    ELSE LET t == toks[i] IN
         IF t = InfoToken THEN ParseLoop([a EXCEPT !.show_compiler_info = TRUE], toks, i + 1)
         ELSE IF t = "-c" THEN ParseLoop([a EXCEPT !.build_only = TRUE], toks, i + 1)
         ELSE IF t = "-o" THEN
             IF i + 1 > Len(toks) THEN [a EXCEPT !.threw = TRUE]
             ELSE ParseLoop([a EXCEPT !.output_path = <<toks[i + 1]>>], toks, i + 2)
         ELSE IF HasStdPrefix(t) THEN ParseLoop([a EXCEPT !.cxx_standard = <<t>>], toks, i + 1)
         ELSE ParseLoop([a EXCEPT !.build_args = Append(a.build_args, t)], toks, i + 1)

\* parse_cpprun_args without the check of inner_main:187: a trailing -o is dropped
parse_cpprun_args_unchecked(toks, e) ==
    [ParseLoop(ApplyEnv(CpprunArgsDefault, e), toks, 1) EXCEPT !.threw = FALSE]

parse_cpprun_args(toks, e) == ParseLoop(ApplyEnv(CpprunArgsDefault, e), toks, 1)

-----------------------------------------------------------------------------
(* collect_build_args *)

\* collect_build_args with the extra flags put before the standard flag
collect_build_args_flags_first(a, output_file) ==
    LET c1 == a.build_args
        c2 == IF a.cxx_standard # <<>> THEN append(c1, a.cxx_standard[1]) ELSE c1
        c3 == IF a.build_only THEN append(c2, "-c") ELSE c2
        c4 == append(c3, "-o")
    IN append(c4, output_file)

collect_build_args(a, output_file) ==
    LET c1 == IF a.cxx_standard # <<>> THEN append(<<>>, a.cxx_standard[1]) ELSE <<>>
        c2 == extend(c1, a.build_args)
        c3 == IF a.build_only THEN append(c2, "-c") ELSE c2
        c4 == append(c3, "-o")
    IN append(c4, output_file)

-----------------------------------------------------------------------------
(* Paths: the working directory is /work, the temporary directory /tmp *)

\* values std::random_device / mt19937 may give, masked to 32 bits
RandomValues == {0, 2147483647}

\* make_random_temp_path: temp_directory_path() / ("cpprun-" + random + "-" + pid)
make_random_temp_path(r) ==
    CASE r = 0 -> "/tmp/cpprun-0-4242"
      [] r = 2147483647 -> "/tmp/cpprun-2147483647-4242"

\* the lambda make_path of inner_main: the temporary directory / the artifact name
make_path(a, r) ==
    LET d == make_random_temp_path(r) IN
    CASE d = "/tmp/cpprun-0-4242" /\ a.build_only -> "/tmp/cpprun-0-4242/artifact.o"
      [] d = "/tmp/cpprun-0-4242" /\ ~a.build_only -> "/tmp/cpprun-0-4242/artifact.exe"
      [] d = "/tmp/cpprun-2147483647-4242" /\ a.build_only -> "/tmp/cpprun-2147483647-4242/artifact.o"
      [] d = "/tmp/cpprun-2147483647-4242" /\ ~a.build_only -> "/tmp/cpprun-2147483647-4242/artifact.exe"

TempPaths == {make_path([build_only |-> b], r) : b \in BOOLEAN, r \in RandomValues}

\* fs::absolute: a relative path is taken from the working directory
absolute(p) ==
    CASE p = InfoToken -> "/work/--cpprun-compiler-info"
      [] p = "-c" -> "/work/-c"
      [] p = "-o" -> "/work/-o"
      [] p = "-std=c++17" -> "/work/-std=c++17"
      [] p = "-std=c++20" -> "/work/-std=c++20"
      [] p = "-v" -> "/work/-v"
      [] p = "--version" -> "/work/--version"
      [] p = "main.cpp" -> "/work/main.cpp"
      [] p = "sub/out" -> "/work/sub/out"
      [] p \in TempPaths -> p

\* fs::path::parent_path
parent_path(p) ==
    CASE p \in {"/tmp/cpprun-0-4242/artifact.o", "/tmp/cpprun-0-4242/artifact.exe"} -> "/tmp/cpprun-0-4242"
      [] p \in {"/tmp/cpprun-2147483647-4242/artifact.o", "/tmp/cpprun-2147483647-4242/artifact.exe"} ->
             "/tmp/cpprun-2147483647-4242"
      [] p = "/work/sub/out" -> "/work/sub"
      [] OTHER -> "/work"

unwrap_or_else(opt, fallback) == IF opt # <<>> THEN opt[1] ELSE fallback

\* fs::remove_all(d): the directory and what is in it
RemoveAll(d, ds, fl) ==
    [dirs |-> ds \ {d}, files |-> {f \in fl : parent_path(f) # d}]

-----------------------------------------------------------------------------
(* run_cmd *)

ExitCodes == {0, 1, 127}
Signals == {9}

\* how a fork/exec/wait can end.  An execvp failure is the child's _exit(127),
\* that is "exited" with 127.
Outcomes ==
    {[kind |-> "fork_failed", val |-> 0], [kind |-> "waitpid_failed", val |-> 0]}
    \cup {[kind |-> "exited", val |-> c] : c \in ExitCodes}
    \cup {[kind |-> "signaled", val |-> s] : s \in Signals}

Ev(e, prog, a) == [ev |-> e, prog |-> prog, args |-> a]

\* run_cmd(prog, args, verbose) when the process ends as o: the value returned
\* and the events, an echo line if verbose and a spawn if fork succeeded.
\* The final "return status" is for a child neither exited nor signaled, which
\* waitpid without WUNTRACED does not report.
run_cmd(prog, a, verbose, o) ==
    LET echo == IF verbose THEN <<Ev("echo", prog, a)>> ELSE <<>> IN
    IF o.kind = "fork_failed" THEN [rc |-> 127, ev |-> echo \o <<Ev("perror", "fork", <<>>)>>]
    ELSE LET ev == echo \o <<Ev("spawn", prog, a)>> IN
         IF o.kind = "waitpid_failed" THEN [rc |-> 127, ev |-> ev \o <<Ev("perror", "waitpid", <<>>)>>]
         ELSE IF o.kind = "exited" THEN [rc |-> o.val, ev |-> ev]
         ELSE [rc |-> 128 + o.val, ev |-> ev]

Call(prog, a, verbose, r) == [prog |-> prog, args |-> a, verbose |-> verbose, rc |-> r]

-----------------------------------------------------------------------------
(* The lambda cleanup of inner_main *)

\* cleanup without the ownership test of inner_main:260
cleanup_unconditional(a, out, ds, fl, removed) ==
    LET after == IF removed THEN RemoveAll(parent_path(out), ds, fl)
                 ELSE [dirs |-> ds, files |-> fl]
    IN [dirs |-> after.dirs, files |-> after.files,
        ev |-> <<Ev("cleanup", "", <<>>),
                 Ev("remove_all", IF removed THEN "ok" ELSE "failed", <<parent_path(out)>>)>>]

\* removed says whether fs::remove_all succeeds; its exception is swallowed
cleanup(a, out, ds, fl, removed) ==
    LET called == <<Ev("cleanup", "", <<>>)>> IN
    IF a.output_path = <<>>
    THEN LET log == IF a.verbose THEN <<Ev("stderr", "cleaning", <<parent_path(out)>>)>> ELSE <<>>
             rm == <<Ev("remove_all", IF removed THEN "ok" ELSE "failed", <<parent_path(out)>>)>>
             after == IF removed THEN RemoveAll(parent_path(out), ds, fl)
                      ELSE [dirs |-> ds, files |-> fl]
         IN [dirs |-> after.dirs, files |-> after.files, ev |-> called \o log \o rm]
    ELSE [dirs |-> ds, files |-> fl, ev |-> called]

-----------------------------------------------------------------------------
(* Inputs *)

Unset == <<>>

EnvNone == [CXXFLAGS |-> Unset, VERBOSE |-> Unset, STANDARD |-> Unset, CXX |-> Unset]

\* values of CPPRUN_CXXFLAGS, as lexemes
CxxflagsValues == {<<>>, <<"-O2">>, <<WS, "-O2", WS, "-c", WS>>}

VerboseChars == {"0", "1", "y", " ", "-"}

\* values of CPPRUN_VERBOSE, as characters
VerboseValues == SeqsUpTo(VerboseChars, MaxVerboseLen)

\* environments: CPPRUN_VERBOSE over all its values with the rest unset or set,
\* and each of the other variables over its values
Envs ==
    {[EnvNone EXCEPT !.VERBOSE = <<v>>] : v \in VerboseValues}
    \cup {[CXXFLAGS |-> <<f>>, VERBOSE |-> <<v>>, STANDARD |-> <<s>>, CXX |-> <<"g++">>] :
            f \in CxxflagsValues, v \in {<<"1">>, <<"y">>}, s \in {"", "-std=c++11"}}
    \cup {EnvNone}

\* the argument lists: at most MaxTool tool-side tokens, then nothing or the
\* separator and at most MaxProg program-side tokens
Argvs ==
    {t \o p : t \in SeqsUpTo(ToolTokens, MaxTool),
              p \in {<<>>} \cup {<<Sep>> \o q : q \in SeqsUpTo(ProgTokens, MaxProg)}}

\* argument lists run under every environment
EnvArgvs == {<<"main.cpp">>, <<"-c", "main.cpp">>, <<InfoToken>>, <<"main.cpp", Sep, "runarg">>}

\* token lists given to parse_cpprun_args directly
ParseInputs == SeqsUpTo(ToolTokens \cup {Sep, "runarg"}, MaxTool) \cup {TestArgsWithSep, TestArgsNoSep}

InitialDirs == {"/", "/work", "/tmp"}

Init ==
    /\ \/ entry = "inner_main" /\ argv \in Argvs /\ env \in {EnvNone}
       \/ entry = "inner_main" /\ argv \in EnvArgvs /\ env \in Envs
       \/ entry = "parse_cpprun_args" /\ argv \in ParseInputs /\ env \in {EnvNone}
    /\ pc = "start"
    /\ cpprun_args = <<>>
    /\ run_args = <<>>
    /\ args = CpprunArgsDefault
    /\ output_path = ""
    /\ dirs = InitialDirs
    /\ files = {}
    /\ events = <<>>
    /\ calls = <<>>
    /\ rc = -1
    /\ ret = -1

-----------------------------------------------------------------------------
(* inner_main, step by step *)

\* inner_main:240-241
Split ==
    /\ entry = "inner_main" /\ pc = "start"
    /\ cpprun_args' = split_args(argv, Sep)[1]
    /\ run_args' = split_args(argv, Sep)[2]
    /\ pc' = "parse"
    /\ UNCHANGED <<entry, argv, env, args, output_path, dirs, files, events, calls, rc, ret>>

\* inner_main:243; the exception of parse_cpprun_args is not caught anywhere
Parse ==
    /\ pc = "parse"
    /\ LET a == parse_cpprun_args(cpprun_args, env) IN
       IF a.threw
       THEN /\ pc' = "threw"
            /\ events' = Append(events, Ev("throw", "runtime_error", <<>>))
            /\ UNCHANGED args
       ELSE /\ pc' = "parsed"
            /\ args' = a
            /\ UNCHANGED events
    /\ UNCHANGED <<entry, argv, env, cpprun_args, run_args, output_path, dirs, files, calls, rc, ret>>

InfoRequested == args.show_compiler_info \/ contains(cpprun_args, "--version") \/ contains(cpprun_args, "-v")

\* inner_main:245-248
InfoQuery ==
    /\ pc = "parsed" /\ InfoRequested
    /\ \E o \in Outcomes :
         LET r == run_cmd(args.cxx, <<"--version">>, TRUE, o) IN
         /\ events' = events \o r.ev
         /\ calls' = Append(calls, Call(args.cxx, <<"--version">>, TRUE, r.rc))
    /\ ret' = 0
    /\ pc' = "done"
    /\ UNCHANGED <<entry, argv, env, cpprun_args, run_args, args, output_path, dirs, files, rc>>

\* inner_main:250-256; create_directories throws when the directory cannot be made
ResolvePath ==
    /\ pc = "parsed" /\ ~InfoRequested
    /\ \E r \in RandomValues, made \in BOOLEAN :
         LET out == absolute(unwrap_or_else(args.output_path, make_path(args, r)))
             d == parent_path(out)
         IN /\ output_path' = out
            /\ IF d \in dirs
               THEN /\ pc' = "compile"
                    /\ UNCHANGED <<dirs, events>>
               ELSE IF made
               THEN /\ pc' = "compile"
                    /\ dirs' = dirs \cup {d}
                    /\ events' = Append(events, Ev("mkdir", "", <<d>>))
               ELSE /\ pc' = "threw"
                    /\ events' = Append(events, Ev("throw", "filesystem_error", <<d>>))
                    /\ UNCHANGED dirs
    /\ UNCHANGED <<entry, argv, env, cpprun_args, run_args, args, files, calls, rc, ret>>

\* inner_main:271-273; a compiler that ran may have written the output file
Compile ==
    /\ pc = "compile"
    /\ \E o \in Outcomes, written \in BOOLEAN :
         LET build_args == collect_build_args(args, output_path)
             r == run_cmd(args.cxx, build_args, args.verbose, o)
         IN /\ o.kind # "exited" => ~written
            /\ rc' = r.rc
            /\ events' = events \o r.ev
            /\ calls' = Append(calls, Call(args.cxx, build_args, args.verbose, r.rc))
            /\ files' = IF written THEN files \cup {output_path} ELSE files
    /\ pc' = "compiled"
    /\ UNCHANGED <<entry, argv, env, cpprun_args, run_args, args, output_path, dirs, ret>>

\* the condition of inner_main:275 without the build-only test
ShouldStopOnFailureOnly == rc # 0

\* the condition of inner_main:275
ShouldStop == rc # 0 \/ args.build_only

\* inner_main:275-278
StopAfterCompile ==
    /\ pc = "compiled" /\ ShouldStop
    /\ \E removed \in BOOLEAN :
         LET c == cleanup(args, output_path, dirs, files, removed) IN
         /\ dirs' = c.dirs
         /\ files' = c.files
         /\ events' = events \o c.ev
    /\ ret' = rc
    /\ pc' = "done"
    /\ UNCHANGED <<entry, argv, env, cpprun_args, run_args, args, output_path, calls, rc>>

\* inner_main:280-285 returning without the cleanup
MissingArtifactNoCleanup ==
    /\ pc = "compiled" /\ ~ShouldStop
    /\ output_path \notin files
    /\ events' = events \o <<Ev("stderr", "ERROR", <<output_path>>)>>
    /\ ret' = 127
    /\ pc' = "done"
    /\ UNCHANGED <<entry, argv, env, cpprun_args, run_args, args, output_path, dirs, files, calls, rc>>

\* inner_main:280-285
MissingArtifact ==
    /\ pc = "compiled" /\ ~ShouldStop
    /\ output_path \notin files
    /\ \E removed \in BOOLEAN :
         LET c == cleanup(args, output_path, dirs, files, removed) IN
         /\ dirs' = c.dirs
         /\ files' = c.files
         /\ events' = events \o <<Ev("stderr", "ERROR", <<output_path>>)>> \o c.ev
    /\ ret' = 127
    /\ pc' = "done"
    /\ UNCHANGED <<entry, argv, env, cpprun_args, run_args, args, output_path, calls, rc>>

\* inner_main:287-291, the binary run with the arguments given
ExecuteWith(given) ==
    /\ pc = "compiled" /\ ~ShouldStop
    /\ output_path \in files
    /\ \E o \in Outcomes, removed \in BOOLEAN :
         LET r == run_cmd(output_path, given, args.verbose, o)
             c == cleanup(args, output_path, dirs, files, removed)
         IN /\ rc' = r.rc
            /\ calls' = Append(calls, Call(output_path, given, args.verbose, r.rc))
            /\ ret' = r.rc
            /\ dirs' = c.dirs
            /\ files' = c.files
            /\ events' = events \o r.ev \o c.ev
    /\ pc' = "done"
    /\ UNCHANGED <<entry, argv, env, cpprun_args, run_args, args, output_path>>

\* inner_main:287-291 handing the binary the whole argument list
ExecuteWithArgv == ExecuteWith(argv)

\* inner_main:287-291
Execute == ExecuteWith(run_args)

\* parse_cpprun_args called on a token list directly, as TEST(CppRun, ParseCpprunArgs) does
ParseDirect ==
    /\ entry = "parse_cpprun_args" /\ pc = "start"
    /\ LET a == parse_cpprun_args(argv, env) IN
       IF a.threw
       THEN /\ pc' = "threw"
            /\ events' = Append(events, Ev("throw", "runtime_error", <<>>))
            /\ UNCHANGED args
       ELSE /\ pc' = "returned"
            /\ args' = a
            /\ UNCHANGED events
    /\ UNCHANGED <<entry, argv, env, cpprun_args, run_args, output_path, dirs, files, calls, rc, ret>>

Next ==
    \/ Split
    \/ Parse
    \/ InfoQuery
    \/ ResolvePath
    \/ Compile
    \/ StopAfterCompile
    \/ MissingArtifact
    \/ Execute
    \/ ParseDirect

Spec == Init /\ [][Next]_vars

-----------------------------------------------------------------------------
(* Vocabulary of the properties, stated on the inputs and on what was observed *)

Count(e) == Cardinality({i \in DOMAIN events : events[i].ev = e})

InInnerMain == entry = "inner_main"

Returned == InInnerMain /\ pc = "done"

\* the number of "-o" tokens directly before position i
RECURSIVE OsBefore(_, _)
OsBefore(toks, i) == IF i > 1 /\ toks[i - 1] = "-o" THEN 1 + OsBefore(toks, i - 1) ELSE 0

\* position i holds the value of an "-o": an odd number of "-o" directly before it
IsOValue(toks, i) == OsBefore(toks, i) % 2 = 1

OptionPositions(toks) == {i \in DOMAIN toks : ~IsOValue(toks, i)}

ValuePositions(toks) == {i \in DOMAIN toks : IsOValue(toks, i)}

MaxOf(S) == CHOOSE i \in S : \A j \in S : j <= i

\* the run has an explicit -o <path>
ExplicitOutput == \E i \in 1..(Len(cpprun_args) - 1) : cpprun_args[i] = "-o"

\* the tool-side tokens ask for the compiler's version
InfoAsked ==
    \/ \E i \in OptionPositions(cpprun_args) : cpprun_args[i] = InfoToken
    \/ \E i \in DOMAIN cpprun_args : cpprun_args[i] \in {"--version", "-v"}

\* parse_cpprun_args has returned
ParsedOk ==
    \/ InInnerMain /\ pc \in {"parsed", "compile", "compiled", "done"}
    \/ InInnerMain /\ pc = "threw" /\ output_path # ""

\* the compile step has run
Compiled == InInnerMain /\ pc \in {"compiled", "done"} /\ ~InfoAsked

ProgramSpawns == {i \in DOMAIN events : events[i].ev = "spawn" /\ events[i].prog = output_path}

-----------------------------------------------------------------------------
(* C1 *)

\* C1 as stated: every run of inner_main that returns has invoked cleanup
\* exactly once, the info query included.
C1_CleanupOnEveryReturn == Returned => Count("cleanup") = 1

\* C1, amended: a run that returns after the compile step (compile failure,
\* build-only stop, missing artifact, program executed) has invoked cleanup
\* exactly once, on its way out; a run that returns from the info query has
\* invoked it zero times.
C1_CleanupOncePerCompiledRun ==
    /\ (Returned /\ ~InfoAsked) => Count("cleanup") = 1
    /\ (Returned /\ InfoAsked) => Count("cleanup") = 0
    /\ ~Returned => Count("cleanup") = 0

C1_Witness == Returned /\ Len(calls) = 2 /\ Count("cleanup") = 1

-----------------------------------------------------------------------------
(* C2 *)

\* C2: on the info query inner_main runs the compiler with the single argument
\* --version and returns the exit code of that invocation.
C2_InfoExitCode ==
    (Returned /\ InfoAsked) =>
        /\ Len(calls) = 1
        /\ calls[1].prog = args.cxx
        /\ calls[1].args = <<"--version">>
        /\ ret = calls[1].rc

-----------------------------------------------------------------------------
(* C3 *)

\* C3: with an explicit -o <path> the tool never removes a directory; without
\* -o, once inner_main has returned from a run that reached the compile step
\* and removal succeeded, the temporary directory it made is gone.
C3_RemovalGatedOnOwnership ==
    /\ (InInnerMain /\ ExplicitOutput) =>
          /\ Count("remove_all") = 0
          /\ InitialDirs \subseteq dirs
          /\ \A i \in DOMAIN events : events[i].ev = "mkdir" => events[i].args[1] \in dirs
    /\ (Returned /\ ~InfoAsked /\ ~ExplicitOutput
            /\ \A i \in DOMAIN events : events[i].ev = "remove_all" => events[i].prog = "ok") =>
          /\ output_path \in TempPaths
          /\ \E i \in DOMAIN events : events[i] = Ev("mkdir", "", <<parent_path(output_path)>>)
          /\ parent_path(output_path) \notin dirs
          /\ output_path \notin files
          /\ Count("remove_all") = 1

C3_Witness ==
    /\ Returned /\ ~ExplicitOutput /\ Len(calls) = 2
    /\ Count("mkdir") = 1
    /\ parent_path(output_path) \notin dirs

-----------------------------------------------------------------------------
(* C4 *)

\* C4: if the compile returns nonzero, or build-only is set, the binary is never
\* spawned, the compiler is the only subprocess, and inner_main returns the
\* compile's exit code.
C4_NoRunAfterFailureOrBuildOnly ==
    (Compiled /\ (calls[1].rc # 0 \/ args.build_only)) =>
        /\ Len(calls) = 1
        /\ calls[1].prog = args.cxx
        /\ ProgramSpawns = {}
        /\ Count("spawn") <= 1
        /\ pc = "done" => ret = calls[1].rc

C4_Witness ==
    /\ Returned /\ args.build_only /\ Len(calls) = 1 /\ calls[1].rc = 0
    /\ Count("spawn") = 1 /\ ret = 0

-----------------------------------------------------------------------------
(* C5 *)

\* the arguments after the first separator of the argument list
ProgramSide ==
    LET hits == {i \in DOMAIN argv : argv[i] = Sep} IN
    IF hits = {} THEN <<>>
    ELSE LET first == CHOOSE i \in hits : \A j \in hits : i <= j
         IN [k \in 1..(Len(argv) - first) |-> argv[first + k]]

\* C5: after a compile that returned 0, build-only off: if the output file is
\* missing inner_main returns 127 and runs nothing more; if it exists the binary
\* is run once, with the program-side arguments in their order, and inner_main
\* returns what that run returned.
C5_RunIffArtifactExists ==
    [][(InInnerMain /\ pc = "compiled" /\ calls[1].rc = 0 /\ ~args.build_only) =>
          /\ pc' = "done"
          /\ IF output_path \in files
             THEN /\ Len(calls') = 2
                  /\ calls'[1] = calls[1]
                  /\ calls'[2].prog = output_path
                  /\ calls'[2].args = ProgramSide
                  /\ ret' = calls'[2].rc
                  /\ Cardinality({i \in DOMAIN events' : events'[i].ev = "spawn"
                                                          /\ events'[i].prog = output_path}) <= 1
                  /\ \A i \in DOMAIN events' :
                        (events'[i].ev = "spawn" /\ events'[i].prog = output_path)
                            => events'[i].args = ProgramSide
             ELSE /\ calls' = calls
                  /\ ret' = 127
                  /\ Cardinality({i \in DOMAIN events' : events'[i].ev = "spawn"}) = Count("spawn")]_vars

C5_Witness ==
    /\ Returned /\ Len(calls) = 2
    /\ calls[2].args = <<"runarg", Sep>>
    /\ ret = calls[2].rc /\ ret = 1

-----------------------------------------------------------------------------
(* C6 *)

\* C6: split_args gives (tool, program): without a separator, the input and the
\* empty list; with one, tool has no separator and tool ++ [sep] ++ program is
\* the input, so the cut is at the first separator and later ones stay in program.
C6_SplitArgs ==
    (InInnerMain /\ pc # "start") =>
        IF \A i \in DOMAIN argv : argv[i] # Sep
        THEN cpprun_args = argv /\ run_args = <<>>
        ELSE /\ \A i \in DOMAIN cpprun_args : cpprun_args[i] # Sep
             /\ cpprun_args \o <<Sep>> \o run_args = argv

C6_Witness ==
    /\ InInnerMain /\ pc # "start"
    /\ Len(cpprun_args) > 0
    /\ \E i \in DOMAIN run_args : run_args[i] = Sep

-----------------------------------------------------------------------------
(* C7 *)

\* C7: parse_cpprun_args throws on a token list that has the separator followed
\* by program arguments, also when no -o lacks its value.
C7_SeparatorRejected ==
    (/\ entry = "parse_cpprun_args" /\ pc # "start"
     /\ \E i \in 1..(Len(argv) - 1) : argv[i] = Sep
     /\ ~(\E i \in OptionPositions(argv) : argv[i] = "-o" /\ i = Len(argv)))
        => pc = "threw"

-----------------------------------------------------------------------------
(* C8 *)

NothingStarted ==
    /\ calls = <<>>
    /\ Count("spawn") = 0
    /\ Count("mkdir") = 0
    /\ dirs = InitialDirs
    /\ ret = -1

\* C8 as stated: whenever -o is the last tool-side token, whatever precedes it,
\* parsing fails and the run ends with no subprocess and no directory made.
C8_TrailingOutputFlagFails ==
    (InInnerMain /\ pc \notin {"start", "parse"}
        /\ Len(cpprun_args) > 0 /\ cpprun_args[Len(cpprun_args)] = "-o")
        => (pc = "threw" /\ NothingStarted)

\* C8, amended: whenever -o is the last tool-side token and is not itself the
\* value of a preceding -o, parsing fails and the run ends with no subprocess
\* and no directory made, whatever else precedes it.
C8_TrailingOutputOptionFails ==
    (InInnerMain /\ pc \notin {"start", "parse"}
        /\ Len(cpprun_args) > 0 /\ cpprun_args[Len(cpprun_args)] = "-o"
        /\ ~IsOValue(cpprun_args, Len(cpprun_args)))
        => (/\ pc = "threw"
            /\ events = <<Ev("throw", "runtime_error", <<>>)>>
            /\ NothingStarted)

C8_Witness ==
    /\ InInnerMain /\ pc = "threw"
    /\ cpprun_args = <<InfoToken, "-c", "-o">>
    /\ NothingStarted

-----------------------------------------------------------------------------
(* C9 *)

\* the standard flag the environment or the default gives
EnvStandard ==
    IF env.STANDARD = Unset THEN <<DEFAULT_CXX_STANDARD>>
    ELSE IF env.STANDARD[1] = "" THEN <<>>
    ELSE <<env.STANDARD[1]>>

\* the baseline flags, or the words of CPPRUN_CXXFLAGS
BaseFlags ==
    IF env.CXXFLAGS = Unset THEN DEFAULT_CXXFLAGS
    ELSE SelectSeq(env.CXXFLAGS[1], LAMBDA w : w # WS)

\* the tokens passed through: not an -o value, not the info token, -c, -o or -std=...
PassThrough(toks) ==
    LET keep(i) == /\ ~IsOValue(toks, i)
                   /\ toks[i] \notin {InfoToken, "-c", "-o"}
                   /\ ~HasStdPrefix(toks[i])
        idx == SelectSeq([i \in DOMAIN toks |-> i], keep)
    IN [k \in DOMAIN idx |-> toks[idx[k]]]

BuildOnlyFlag(toks) == IF \E i \in OptionPositions(toks) : toks[i] = "-c" THEN <<"-c">> ELSE <<>>

\* the resolved output path: the last -o value made absolute, else the temporary one
ResolvedOutput(toks) ==
    IF ValuePositions(toks) # {} THEN output_path = absolute(toks[MaxOf(ValuePositions(toks))])
    ELSE output_path \in TempPaths

\* the argument vector, the standard flag being the token at position set S, if any
ExpectedArgs(toks, S) ==
    (IF S # {} THEN <<toks[MaxOf(S)]>> ELSE EnvStandard)
    \o BaseFlags \o PassThrough(toks) \o BuildOnlyFlag(toks) \o <<"-o", output_path>>

-----------------------------------------------------------------------------
(* C10 *)

\* C10: with CPPRUN_VERBOSE set to any non-empty value verbose mode is on, and
\* every command is printed before it is spawned.
C10_VerboseWhenNonEmpty ==
    ((ParsedOk \/ pc = "returned") /\ env.VERBOSE # Unset /\ env.VERBOSE[1] # <<>>) =>
        /\ args.verbose
        /\ \A i \in DOMAIN events :
              events[i].ev = "spawn" =>
                  i > 1 /\ events[i - 1] = Ev("echo", events[i].prog, events[i].args)

====
